---- MODULE Spec2Model ----
(***************************************************************************)
(* Provider-availability scheduling engine of health-first-server:         *)
(* the availability collection, the conflict detector, the booking state   *)
(* machine and the error mapping of the HTTP boundary.                     *)
(*                                                                         *)
(* Time strings are sequences of one-character strings, so that the        *)
(* string comparisons MongoDB performs on start_time / end_time and the    *)
(* numeric parse of timeToMinutes are two different computations.          *)
(* Instants (Date values) are minutes since an epoch; a date-only value is *)
(* midnight of its day.                                                    *)
(***************************************************************************)
EXTENDS Integers, Sequences, FiniteSets, TLC

VARIABLES
    store,    \* the availability collection: id -> stored document
    nextId,   \* number of documents ever inserted (ids are never reused)
    now,      \* the clock read by `new Date()`
    last,     \* outcome of the most recent completed service call
    reqs,     \* in-flight requests: private document copy and position
    probe,    \* argument/result pair of a pure-function evaluation
    host      \* the time zone of the server process

vars == <<store, nextId, now, last, reqs, probe, host>>

-----------------------------------------------------------------------------
(* Bounds of the model *)

MaxBookRecords == 1      \* documents in the booking-lifecycle specification
MaxRecords == 2          \* documents in the scheduling specifications
MaxTicks == 1            \* days the clock may advance
MaxReq == 2              \* concurrent requests
MaxIterations == 6       \* loop iterations followed before giving up

-----------------------------------------------------------------------------
(* Characters and strings *)

CharTable == <<"0", "1", "2", "3", "4", "5", "6", "7", "8", "9", ":">>

\* code-unit order of the characters that occur in time strings
Ord(c) == CHOOSE i \in 1..Len(CharTable) : CharTable[i] = c

IsDigit(c) == c \in {CharTable[i] : i \in 1..10}

DigitVal(c) == Ord(c) - 1

\* binary (code-unit) string order used by MongoDB's $lt on strings
StrLess(a, b) ==
    \/ /\ Len(a) < Len(b)
       /\ \A i \in 1..Len(a) : a[i] = b[i]
    \/ \E i \in 1..Len(a) :
          /\ i <= Len(b)
          /\ \A j \in 1..(i - 1) : a[j] = b[j]
          /\ Ord(a[i]) < Ord(b[i])

StrLe(a, b) == a = b \/ StrLess(a, b)

\* /^([01]?[0-9]|2[0-3]):[0-5][0-9]$/
MatchesTimePattern(s) ==
    \/ /\ Len(s) = 5
       /\ \/ s[1] \in {"0", "1"} /\ IsDigit(s[2])
          \/ s[1] = "2" /\ s[2] \in {"0", "1", "2", "3"}
       /\ s[3] = ":"
       /\ s[4] \in {"0", "1", "2", "3", "4", "5"}
       /\ IsDigit(s[5])
    \/ /\ Len(s) = 4
       /\ IsDigit(s[1])
       /\ s[2] = ":"
       /\ s[3] \in {"0", "1", "2", "3", "4", "5"}
       /\ IsDigit(s[4])

RECURSIVE NumberOf(_)
\* Number("07") = 7, Number("") = 0
NumberOf(s) ==
    IF Len(s) = 0 THEN 0
    ELSE NumberOf(SubSeq(s, 1, Len(s) - 1)) * 10 + DigitVal(s[Len(s)])

ColonAt(s) == CHOOSE i \in 1..Len(s) : s[i] = ":"

\* timeStr.split(':').map(Number); hours * 60 + minutes
timeToMinutes(timeStr) ==
    LET c == ColonAt(timeStr)
    IN  NumberOf(SubSeq(timeStr, 1, c - 1)) * 60
          + NumberOf(SubSeq(timeStr, c + 1, Len(timeStr)))

-----------------------------------------------------------------------------
(* Instants and time conversion *)

MinutesPerDay == 24 * 60

Day(n) == n * MinutesPerDay

\* the value of `new Date(s)` for a string V8 cannot parse
InvalidDate == 0 - 1

\* date.toISOString().split('T')[0]: the UTC calendar day of an instant
IsoDay(d) == d - (d % MinutesPerDay)

SupportedTimezones == {"UTC", "America/New_York", "Asia/Kolkata"}

\* isValidTimezone: membership in the whitelist
isValidTimezone(tz) == tz \in SupportedTimezones

\* minutes east of UTC of a zone (standard time), as V8's zone data has it
ZoneOffset(tz) ==
    CASE tz = "America/New_York" -> 0 - 300
      [] tz = "Asia/Kolkata" -> 330
      [] OTHER -> 0

\* zones the server process may run in
HostZones == {"UTC", "Asia/Kolkata"}

\* new Date(s) for a date-time string without zone designator: the reading
\* `wall` (minutes, as if UTC) taken as local time of the server process
ParseLocal(wall) == wall - ZoneOffset(host)

\* getTimezoneOffset: the date rendered in the zone by toLocaleString and
\* parsed back as local time of the server process, minus the date
getTimezoneOffset(timezone, date) ==
    ParseLocal(date + ZoneOffset(timezone)) - date

\* localToUTC: `${localDate}T${localTime}:00` is an ISO date-time only for a
\* two-digit hour (Invalid Date otherwise); parsed as local time of the
\* server process, minus the offset
localToUTC(localTime, localDate, timezone) ==
    IF Len(localTime) # 5 THEN InvalidDate
    ELSE LET localDateTime == ParseLocal(localDate + timeToMinutes(localTime))
         IN  localDateTime - getTimezoneOffset(timezone, localDateTime)

\* n.toString().padStart(2, '0') for 0 <= n < 100
PadStart2(n) == <<CharTable[(n \div 10) + 1], CharTable[(n % 10) + 1]>>

\* minutesToTime: `${hours padded}:${mins padded}`
minutesToTime(minutes) ==
    PadStart2(minutes \div 60) \o <<":">> \o PadStart2(minutes % 60)

\* utcToLocal: the instant shifted by the offset; its date read through
\* toISOString (UTC), its time through toTimeString (local time of the
\* server process)
utcToLocal(utcDateTime, timezone) ==
    LET localDateTime ==
            utcDateTime + getTimezoneOffset(timezone, utcDateTime)
    IN  [date |-> IsoDay(localDateTime),
         time |-> minutesToTime((localDateTime + ZoneOffset(host))
                                  % MinutesPerDay)]

RECURSIVE SlotLoop_StrictBound(_, _, _, _)
\* the loop with `<` for `<=`: a slot ending exactly at the end is dropped
SlotLoop_StrictBound(currentTime, endMinutes, slotDuration, breakDuration) ==
    IF currentTime + slotDuration < endMinutes
    THEN <<[start_time |-> minutesToTime(currentTime),
            end_time |-> minutesToTime(currentTime + slotDuration)]>>
           \o SlotLoop_StrictBound(
                 currentTime + slotDuration + breakDuration,
                 endMinutes, slotDuration, breakDuration)
    ELSE <<>>

\* the while loop of generateTimeSlots from currentTime on
RECURSIVE SlotLoop(_, _, _, _)
SlotLoop(currentTime, endMinutes, slotDuration, breakDuration) ==
    IF currentTime + slotDuration <= endMinutes
    THEN <<[start_time |-> minutesToTime(currentTime),
            end_time |-> minutesToTime(currentTime + slotDuration)]>>
           \o SlotLoop(currentTime + slotDuration + breakDuration,
                       endMinutes, slotDuration, breakDuration)
    ELSE <<>>

\* generateTimeSlots(startTime, endTime, slotDuration, breakDuration)
generateTimeSlots(startTime, endTime, slotDuration, breakDuration) ==
    SlotLoop(timeToMinutes(startTime), timeToMinutes(endTime),
             slotDuration, breakDuration)

-----------------------------------------------------------------------------
(* Errors: utils/errors and the error handler *)

\* the classes utils/errors exports; ConflictError is not among them
ExportedErrors ==
    {"ValidationError", "DuplicateError", "DatabaseError",
     "AuthenticationError", "AuthorizationError", "NotFoundError",
     "RateLimitError"}

NoError == "none"

\* `throw new C(...)`: constructing an undefined binding raises TypeError
ThrowNew(cls) == IF cls \in ExportedErrors THEN cls ELSE "TypeError"

RECURSIVE InstanceOfAny(_, _)
\* `err instanceof A || err instanceof B`, left to right; an undefined
\* right-hand side raises TypeError
InstanceOfAny(err, classes) ==
    IF Len(classes) = 0 THEN "no"
    ELSE IF Head(classes) \notin ExportedErrors THEN "throws"
    ELSE IF err = Head(classes) THEN "yes"
    ELSE InstanceOfAny(err, Tail(classes))

\* catch (error) { if (<instanceof chain>) throw error; throw new W(...) }
CatchRethrow(err, classes, wrap) ==
    LET r == InstanceOfAny(err, classes)
    IN  IF r = "throws" THEN "TypeError"
        ELSE IF r = "yes" THEN err
        ELSE ThrowNew(wrap)

\* errorHandler: HTTP status of an error passed to next(error)
errorHandler(err) ==
    CASE err = "ValidationError" -> 400
      [] err = "DuplicateError" -> 409
      [] err = "DatabaseError" -> 500
      [] err = "AuthenticationError" -> 401
      [] err = "AuthorizationError" -> 403
      [] err = "NotFoundError" -> 404
      [] err = "RateLimitError" -> 429
      [] OTHER -> 500

-----------------------------------------------------------------------------
(* The availability document (models/ProviderAvailability) *)

Statuses == {"available", "booked", "cancelled", "blocked", "maintenance"}

NoId == 0

\* paths of a stored document
DocFields ==
    {"provider_id", "date", "start_time", "end_time", "timezone",
     "utc_start_time", "utc_end_time", "is_recurring",
     "recurrence_pattern", "status", "max_appointments_per_slot",
     "current_appointments", "insurance_accepted"}

RecurrencePatterns == {"daily", "weekly", "monthly"}

\* value of a path the document does not have
Absent == "none"

\* a date parameter that was not given
NoDate == InvalidDate

\* the schema's per-path validators, applied to the paths in `paths`
SchemaInvalid(d, paths, clock) ==
    {f \in paths \cap DOMAIN d :
        \/ f = "date" /\ ~(d.date >= clock)
        \/ f = "start_time" /\ ~MatchesTimePattern(d.start_time)
        \/ f = "end_time" /\ ~MatchesTimePattern(d.end_time)
        \/ f = "timezone" /\ ~isValidTimezone(d.timezone)
        \/ f = "status" /\ d.status \notin Statuses
        \/ f = "recurrence_pattern"
             /\ d.recurrence_pattern \notin RecurrencePatterns \cup {Absent}
        \/ f = "max_appointments_per_slot"
             /\ ~(d.max_appointments_per_slot >= 1
                    /\ d.max_appointments_per_slot <= 10)
        \/ f = "current_appointments" /\ ~(d.current_appointments >= 0)
        \/ f = "utc_start_time" /\ d.utc_start_time = InvalidDate
        \/ f = "utc_end_time" /\ d.utc_end_time = InvalidDate}

\* providerAvailabilityValidationSchema.validate: the failing fields
JoiInvalid(data, clock) ==
    SchemaInvalid(data, DOMAIN data, clock)
      \cup {f \in DOMAIN data :
              \/ f = "recurrence_end_date"
                   /\ data.recurrence_end_date # InvalidDate
                   /\ ~(data.recurrence_end_date >= clock)
              \/ f = "slot_duration"
                   /\ ~(data.slot_duration >= 15 /\ data.slot_duration <= 480)
              \/ f = "break_duration"
                   /\ ~(data.break_duration >= 0 /\ data.break_duration <= 60)}

isAvailable(d) ==
    d.status = "available"
      /\ d.current_appointments < d.max_appointments_per_slot

canBeBooked(d, clock) == isAvailable(d) /\ d.date >= clock

incrementAppointments(d) ==
    IF d.current_appointments < d.max_appointments_per_slot
    THEN [ok |-> TRUE,
          doc |-> [d EXCEPT
                     !.current_appointments = @ + 1,
                     !.status =
                        IF d.current_appointments + 1
                             >= d.max_appointments_per_slot
                        THEN "booked" ELSE @]]
    ELSE [ok |-> FALSE, doc |-> d]

\* decrementAppointments without the return to 'available'
decrementAppointments_KeepsStatus(d) ==
    IF d.current_appointments > 0
    THEN [ok |-> TRUE,
          doc |-> [d EXCEPT !.current_appointments = @ - 1]]
    ELSE [ok |-> FALSE, doc |-> d]

decrementAppointments(d) ==
    IF d.current_appointments > 0
    THEN [ok |-> TRUE,
          doc |-> [d EXCEPT
                     !.current_appointments = @ - 1,
                     !.status =
                        IF d.status = "booked"
                             /\ d.current_appointments - 1
                                  < d.max_appointments_per_slot
                        THEN "available" ELSE @]]
    ELSE [ok |-> FALSE, doc |-> d]

\* pre('save'): the range check, then the UTC instants. A hook that sets an
\* Invalid Date leaves the outcome to the driver: the save is refused, or the
\* path keeps its previous value.
preSave(d) ==
    IF timeToMinutes(d.end_time) <= timeToMinutes(d.start_time)
    THEN {[ok |-> FALSE, error |-> "Error", doc |-> d]}
    ELSE LET us == localToUTC(d.start_time, IsoDay(d.date), d.timezone)
             ue == localToUTC(d.end_time, IsoDay(d.date), d.timezone)
         IN  IF us = InvalidDate \/ ue = InvalidDate
             THEN {[ok |-> FALSE, error |-> "MongooseError", doc |-> d],
                   [ok |-> TRUE, error |-> NoError,
                    doc |-> [d EXCEPT
                      !.utc_start_time = IF us = InvalidDate THEN @ ELSE us,
                      !.utc_end_time = IF ue = InvalidDate THEN @ ELSE ue]]}
             ELSE {[ok |-> TRUE, error |-> NoError,
                    doc |-> [d EXCEPT !.utc_start_time = us,
                                      !.utc_end_time = ue]]}

\* placeholder for "no document held"
NoDoc ==
    [provider_id |-> "none", date |-> 0, start_time |-> <<>>,
     end_time |-> <<>>, timezone |-> "UTC", utc_start_time |-> InvalidDate,
     utc_end_time |-> InvalidDate, is_recurring |-> FALSE,
     recurrence_pattern |-> Absent, insurance_accepted |-> FALSE,
     status |-> "available", max_appointments_per_slot |-> 1,
     current_appointments |-> 0]

\* new this.model(data): the document before its first save
NewDocument(data) ==
    [f \in DocFields |->
        IF f \in DOMAIN data THEN data[f] ELSE InvalidDate]

\* document.save() of a new document: outcomes of hook and validators
saveNew(data, clock) ==
    {IF ~o.ok THEN o
     ELSE IF SchemaInvalid(o.doc, DocFields, clock) # {}
          THEN [ok |-> FALSE, error |-> "MongooseError", doc |-> o.doc]
          ELSE o : o \in preSave(NewDocument(data))}

\* document.save() of a loaded document writes the paths that differ from
\* the values it was loaded with
WriteModified(stored, loaded, doc) ==
    [f \in DocFields |-> IF doc[f] # loaded[f] THEN doc[f] ELSE stored[f]]

-----------------------------------------------------------------------------
(* Conflict detector (repository checkForConflicts) *)

\* the three $or branches, compared as strings
TimeQueryMatches(d, startTime, endTime) ==
    \/ StrLe(d.start_time, startTime) /\ StrLess(startTime, d.end_time)
    \/ StrLess(d.start_time, endTime) /\ StrLe(endTime, d.end_time)
    \/ StrLe(startTime, d.start_time) /\ StrLe(d.end_time, endTime)

checkForConflicts(st, providerId, date, startTime, endTime, excludeId) ==
    \E id \in DOMAIN st :
        /\ excludeId # NoId => id # excludeId
        /\ st[id].provider_id = providerId
        /\ st[id].date = date
        /\ TimeQueryMatches(st[id], startTime, endTime)

-----------------------------------------------------------------------------
(* Repository and service operations, as functions of the collection.       *)
(* Each yields the set of possible outcomes [error, store].                 *)

Insert(st, id, d) == [i \in DOMAIN st \cup {id} |-> IF i = id THEN d ELSE st[i]]

Failure(err, st) == [error |-> err, store |-> st]

\* repository create: conflict check, then save
create(st, nid, value, clock) ==
    IF checkForConflicts(st, value.provider_id, value.date,
                         value.start_time, value.end_time, NoId)
    THEN {Failure(CatchRethrow(ThrowNew("ConflictError"),
                               <<"ConflictError">>, "DatabaseError"), st)}
    ELSE {IF o.ok
          THEN [error |-> NoError, store |-> Insert(st, nid + 1, o.doc)]
          ELSE Failure(CatchRethrow(o.error, <<"ConflictError">>,
                                    "DatabaseError"), st)
            : o \in saveNew(value, clock)}

\* first days of the calendar months around the dates of the model, as
\* day numbers (day 1 is 2024-12-15): December 2024 to May 2025
MonthStarts == <<0 - 13, 18, 49, 77, 108, 138>>

\* setMonth(getMonth() + 1) on a local calendar day: same day of the month
\* in the next month, running over into the month after if it is too short
AddMonth(dayNumber) ==
    LET i == CHOOSE j \in 1..(Len(MonthStarts) - 1) :
                 MonthStarts[j] <= dayNumber /\ dayNumber < MonthStarts[j + 1]
    IN  MonthStarts[i + 1] + (dayNumber - MonthStarts[i])

\* the switch of generateRecurringSlots: setDate / setMonth act on the local
\* calendar fields of the cursor; no case matches an absent pattern
NextCursor(recurrence_pattern, currentDate) ==
    LET local == currentDate + ZoneOffset(host)
        dayNumber == local \div MinutesPerDay
    IN  CASE recurrence_pattern = "daily" -> currentDate + Day(1)
          [] recurrence_pattern = "weekly" -> currentDate + Day(7)
          [] recurrence_pattern = "monthly" ->
                 currentDate + Day(AddMonth(dayNumber) - dayNumber)
          [] OTHER -> currentDate

\* `currentDate <= endDate`; false when endDate is new Date(undefined)
LoopContinues(data, currentDate) ==
    /\ data.recurrence_end_date # InvalidDate
    /\ currentDate <= data.recurrence_end_date

\* the slot documents one iteration of the while loop pushes: the time
\* slots of the cursor date that checkForConflicts lets through
SlotsOfDate(st, data, currentDate) ==
    LET timeSlots == generateTimeSlots(data.start_time, data.end_time,
                                       data.slot_duration, data.break_duration)
        Free(slotData) ==
            ~checkForConflicts(st, slotData.provider_id, slotData.date,
                               slotData.start_time, slotData.end_time, NoId)
    IN  SelectSeq([k \in 1..Len(timeSlots) |->
                     [data EXCEPT !.date = currentDate,
                                  !.start_time = timeSlots[k].start_time,
                                  !.end_time = timeSlots[k].end_time]],
                  Free)

\* one iteration of the while loop of generateRecurringSlots
RecurIter(st, data, loop) ==
    [currentDate |-> NextCursor(data.recurrence_pattern, loop.currentDate),
     slots |-> loop.slots \o SlotsOfDate(st, data, loop.currentDate)]

RECURSIVE RecurLoop(_, _, _, _)
\* the while loop, followed for at most `fuel` iterations
RecurLoop(st, data, loop, fuel) ==
    IF ~LoopContinues(data, loop.currentDate)
    THEN [returns |-> TRUE, slots |-> loop.slots]
    ELSE IF fuel = 0
    THEN [returns |-> FALSE, slots |-> loop.slots]
    ELSE CHOOSE result \in {RecurLoop(st, data, next, left) :
                               next \in {RecurIter(st, data, loop)},
                               left \in {fuel - 1}} : TRUE

\* Model.insertMany(slots): every document is validated (no save hook runs)
\* and the batch is inserted only if all are valid
insertMany(st, nid, slots, clock) ==
    IF \E k \in 1..Len(slots) :
          SchemaInvalid(NewDocument(slots[k]), DocFields, clock) # {}
    THEN Failure("MongooseError", st)
    ELSE [error |-> NoError,
          store |-> [i \in DOMAIN st \cup ((nid + 1)..(nid + Len(slots))) |->
                       IF i \in DOMAIN st THEN st[i]
                       ELSE NewDocument(slots[i - nid])]]

NoReturn == "no return"

\* repository generateRecurringSlots: [error, store, slots]
generateRecurringSlots(st, nid, availabilityData, clock) ==
    LET l == RecurLoop(st, availabilityData,
                       [currentDate |-> availabilityData.date,
                        slots |-> <<>>], MaxIterations)
        ins == IF Len(l.slots) > 0
               THEN insertMany(st, nid, l.slots, clock)
               ELSE [error |-> NoError, store |-> st]
    IN  IF ~l.returns
        THEN [error |-> NoReturn, store |-> st, slots |-> <<>>]
        ELSE IF ins.error # NoError
        THEN [error |-> ThrowNew("DatabaseError"), store |-> st,
              slots |-> <<>>]
        ELSE [error |-> NoError, store |-> ins.store, slots |-> l.slots]

\* the recurring branch of createAvailability up to its return: the error
\* raised inside the try block
recurringBranch(st, nid, value, clock) ==
    LET g == generateRecurringSlots(st, nid, value, clock)
    IN  IF g.error # NoError THEN g
        ELSE IF value.recurrence_end_date = InvalidDate
        THEN [g EXCEPT !.error = "TypeError"]
        ELSE g

\* service createAvailability: [error, store, slots_created]
createAvailability(st, nid, data, clock) ==
    IF JoiInvalid(data, clock) # {}
    THEN {[error |-> CatchRethrow(ThrowNew("ValidationError"),
                                  <<"ValidationError", "ConflictError">>,
                                  "DatabaseError"),
           store |-> st, slots_created |-> 0]}
    ELSE IF data.is_recurring
    THEN LET g == recurringBranch(st, nid, data, clock)
         IN  {[error |-> IF g.error \in {NoError, NoReturn} THEN g.error
                         ELSE CatchRethrow(g.error,
                                <<"ValidationError", "ConflictError">>,
                                "DatabaseError"),
               store |-> g.store,
               slots_created |-> IF g.error = NoError THEN Len(g.slots)
                                 ELSE 0]}
    ELSE {[error |-> IF o.error = NoError THEN NoError
                     ELSE CatchRethrow(o.error,
                            <<"ValidationError", "ConflictError">>,
                            "DatabaseError"),
           store |-> IF o.error = NoError THEN o.store ELSE st,
           slots_created |-> 0]
            : o \in create(st, nid, data, clock)}

TouchesTime(updateData) ==
    DOMAIN updateData \cap {"start_time", "end_time", "date"} # {}

Patched(d, updateData) ==
    [f \in DocFields |-> IF f \in DOMAIN updateData THEN updateData[f] ELSE d[f]]

\* the error updateById raises inside its try block, NoError if none
updateByIdError(st, id, updateData, clock) ==
    IF TouchesTime(updateData) /\ id \notin DOMAIN st
    THEN ThrowNew("NotFoundError")
    ELSE IF /\ TouchesTime(updateData)
            /\ LET merged == Patched(st[id], updateData)
               IN  checkForConflicts(st, st[id].provider_id, merged.date,
                                     merged.start_time, merged.end_time, id)
    THEN ThrowNew("ConflictError")
    ELSE IF SchemaInvalid(updateData, DOMAIN updateData, clock) # {}
    THEN "MongooseError"
    ELSE IF id \notin DOMAIN st
    THEN ThrowNew("NotFoundError")
    ELSE NoError

\* repository updateById: conflict check when a time field is patched,
\* then findByIdAndUpdate with runValidators (no save hook)
updateById(st, id, updateData, clock) ==
    LET err == updateByIdError(st, id, updateData, clock)
    IN  IF err = NoError
        THEN [error |-> NoError,
              store |-> [st EXCEPT ![id] = Patched(st[id], updateData)]]
        ELSE Failure(CatchRethrow(err, <<"NotFoundError", "ConflictError">>,
                                  "DatabaseError"), st)

\* service updateAvailability
updateAvailability(st, id, updateData, clock) ==
    LET o == updateById(st, id, updateData, clock)
    IN  IF o.error = NoError THEN o
        ELSE Failure(CatchRethrow(o.error,
                                  <<"NotFoundError", "ConflictError">>,
                                  "DatabaseError"), st)

\* getAvailabilityById
getAvailabilityByIdError(st, id) ==
    IF id \in DOMAIN st THEN NoError
    ELSE CatchRethrow(ThrowNew("NotFoundError"), <<"NotFoundError">>,
                      "DatabaseError")

\* bookSlot up to its `await availability.save()`: the error raised so far
\* and the private document
bookSlotLocal(st, id, clock) ==
    IF getAvailabilityByIdError(st, id) # NoError
    THEN [error |-> getAvailabilityByIdError(st, id), doc |-> NoDoc]
    ELSE IF ~canBeBooked(st[id], clock)
    THEN [error |-> ThrowNew("ConflictError"), doc |-> st[id]]
    ELSE IF ~incrementAppointments(st[id]).ok
    THEN [error |-> ThrowNew("ConflictError"), doc |-> st[id]]
    ELSE [error |-> NoError, doc |-> incrementAppointments(st[id]).doc]

\* cancelSlot up to its `await availability.save()`
cancelSlotLocal(st, id) ==
    IF getAvailabilityByIdError(st, id) # NoError
    THEN [error |-> getAvailabilityByIdError(st, id), doc |-> NoDoc]
    ELSE IF st[id].current_appointments <= 0
    THEN [error |-> ThrowNew("ConflictError"), doc |-> st[id]]
    ELSE IF ~decrementAppointments(st[id]).ok
    THEN [error |-> ThrowNew("ConflictError"), doc |-> st[id]]
    ELSE [error |-> NoError, doc |-> decrementAppointments(st[id]).doc]

\* availability.save() of a loaded document against the collection as it is
\* when the write arrives
saveLoaded(st, id, loaded, doc) ==
    {IF ~o.ok THEN Failure(o.error, st)
     ELSE IF id \notin DOMAIN st THEN Failure("MongooseError", st)
     ELSE [error |-> NoError,
           store |-> [st EXCEPT ![id] = WriteModified(st[id], loaded, o.doc)]]
       : o \in preSave(doc)}

\* the catch block shared by bookSlot and cancelSlot
SlotCatch(err) ==
    IF err = NoError THEN NoError
    ELSE CatchRethrow(err, <<"NotFoundError", "ConflictError">>,
                      "DatabaseError")

\* service bookSlot, run without interruption
bookSlot(st, id, clock) ==
    LET l == bookSlotLocal(st, id, clock)
    IN  IF l.error # NoError THEN {Failure(SlotCatch(l.error), st)}
        ELSE {[error |-> SlotCatch(o.error), store |-> o.store]
                : o \in saveLoaded(st, id, st[id], l.doc)}

\* service cancelSlot, run without interruption
cancelSlot(st, id) ==
    LET l == cancelSlotLocal(st, id)
    IN  IF l.error # NoError THEN {Failure(SlotCatch(l.error), st)}
        ELSE {[error |-> SlotCatch(o.error), store |-> o.store]
                : o \in saveLoaded(st, id, st[id], l.doc)}

\* the error deleteById raises inside its try block, NoError if none
deleteByIdError(st, id) ==
    IF id \notin DOMAIN st THEN ThrowNew("NotFoundError")
    ELSE IF st[id].current_appointments > 0 THEN ThrowNew("ConflictError")
    ELSE NoError

\* deleteMany filter of the recurring branch
SameSeries(d, availability) ==
    /\ d.provider_id = availability.provider_id
    /\ d.is_recurring
    /\ d.recurrence_pattern = availability.recurrence_pattern
    /\ d.start_time = availability.start_time
    /\ d.end_time = availability.end_time

\* repository deleteById: refuses a record with appointments, then
\* deleteMany of the series or findByIdAndDelete of the record
deleteById(st, id, deleteRecurring) ==
    LET err == deleteByIdError(st, id)
    IN  IF err # NoError
        THEN Failure(CatchRethrow(err, <<"NotFoundError", "ConflictError">>,
                                  "DatabaseError"), st)
        ELSE IF deleteRecurring /\ st[id].is_recurring
        THEN [error |-> NoError,
              store |-> [i \in {j \in DOMAIN st : ~SameSeries(st[j], st[id])}
                           |-> st[i]]]
        ELSE [error |-> NoError,
              store |-> [i \in DOMAIN st \ {id} |-> st[i]]]

\* service deleteAvailability
deleteAvailability(st, id, deleteRecurring) ==
    LET o == deleteById(st, id, deleteRecurring)
    IN  IF o.error = NoError THEN o
        ELSE Failure(CatchRethrow(o.error,
                                  <<"NotFoundError", "ConflictError">>,
                                  "DatabaseError"), st)

\* the provider documents that populate('provider_id', ...) joins in
Specialization(p) == IF p = "p1" THEN "cardiology" ELSE "dermatology"

\* the MongoDB query search builds from the criteria
SearchQueryMatches(d, c) ==
    /\ c.startDate # NoDate /\ c.endDate # NoDate
          => (d.date >= c.startDate /\ d.date <= c.endDate)
    /\ d.insurance_accepted = c.insuranceAccepted
    /\ c.timezone # Absent => d.timezone = c.timezone
    /\ c.availableOnly
          => /\ d.status = "available"
             /\ d.current_appointments < d.max_appointments_per_slot

\* sort({ date: 1, start_time: 1 }): dates as instants, times as strings;
\* documents with equal keys in insertion order
SortsBefore(st, a, b) ==
    \/ st[a].date < st[b].date
    \/ /\ st[a].date = st[b].date
       /\ \/ StrLess(st[a].start_time, st[b].start_time)
          \/ st[a].start_time = st[b].start_time /\ a < b

RECURSIVE Sorted(_, _)
\* the ids of `ids` in sort order
Sorted(st, ids) ==
    IF ids = {} THEN <<>>
    ELSE LET first == CHOOSE a \in ids :
                          \A b \in ids \ {a} : SortsBefore(st, a, b)
         IN  <<first>> \o Sorted(st, ids \ {first})

\* .skip(skip).limit(limit) of a result list
SkipLimit(list, skip, limit) ==
    SubSeq(list, skip + 1,
           IF skip + limit < Len(list) THEN skip + limit ELSE Len(list))

\* the specialization filter applied to the fetched documents
SpecializationFilter(st, list, c) ==
    LET Keep(id) == Specialization(st[id].provider_id) = c.specialization
    IN  IF c.specialization = Absent THEN list ELSE SelectSeq(list, Keep)

\* repository search: query, sort, skip/limit, then the post-filter
search(st, c) ==
    LET found == {id \in DOMAIN st : SearchQueryMatches(st[id], c)}
        fetched == SkipLimit(Sorted(st, found), (c.page - 1) * c.limit,
                             c.limit)
    IN  [availability |-> SpecializationFilter(st, fetched, c),
         total |-> Cardinality(found)]

RECURSIVE formatSearchResults(_, _)
\* formatSearchResults: one entry per provider in order of first
\* appearance, each with the slots of the list that belong to it
formatSearchResults(st, availability) ==
    IF availability = <<>> THEN <<>>
    ELSE LET p == st[availability[1]].provider_id
             Mine(id) == st[id].provider_id = p
             Others(id) == st[id].provider_id # p
         IN  <<[provider |-> p,
                available_slots |-> SelectSeq(availability, Mine)]>>
               \o formatSearchResults(st, SelectSeq(availability, Others))

\* service searchAvailability
searchAvailability(st, c) ==
    LET result == search(st, c)
    IN  [total_results |-> Len(result.availability),
         results |-> formatSearchResults(st, result.availability)]

\* controller: res.status(okStatus) or next(error) into the error handler
Respond(okStatus, err) == IF err = NoError THEN okStatus ELSE errorHandler(err)

-----------------------------------------------------------------------------
(* Inputs *)

T(h1, h2, m1, m2) == <<h1, h2, ":", m1, m2>>

\* a creation request body after Joi defaults
Data(p, d, s, e, tz, st, mx, cur) ==
    [provider_id |-> p, date |-> d, start_time |-> s, end_time |-> e,
     timezone |-> tz, is_recurring |-> FALSE,
     recurrence_pattern |-> Absent, insurance_accepted |-> FALSE,
     status |-> st,
     max_appointments_per_slot |-> mx, current_appointments |-> cur]

NowInit == Day(0) + 12 * 60

\* booking lifecycle: one provider, one window, varying capacity fields
BookingCreateInputs ==
    {Data("p1", Day(1), T("0", "9", "0", "0"), T("1", "0", "0", "0"),
          "America/New_York", st, mx, cur) :
        st \in {"available", "cancelled"}, mx \in {1, 2}, cur \in {0, 2}}

BookingPatches ==
    {[end_time |-> e] :
        e \in {T("0", "8", "0", "0"), T("1", "0", "0", "0"),
               T("1", "1", "0", "0")}}
      \cup {[status |-> st] : st \in Statuses}
      \cup {[current_appointments |-> c] : c \in {0, 2}}
      \cup {[max_appointments_per_slot |-> m] : m \in {1, 2}}

BookingIds == 1..(MaxBookRecords + 1)

\* H:mm, the single-digit-hour form the time pattern also accepts
T1(h, m1, m2) == <<h, ":", m1, m2>>

Plain(p, d, s, e) == Data(p, d, s, e, "America/New_York", "available", 1, 0)

\* scheduling: two providers, two days, windows around 09:00-11:00
ScheduleWindows ==
    {<<T("0", "9", "0", "0"), T("1", "0", "0", "0")>>,
     <<T("0", "9", "3", "0"), T("1", "0", "3", "0")>>,
     <<T("1", "0", "0", "0"), T("1", "1", "0", "0")>>}

ScheduleCreateInputs ==
    {Plain(p, d, w[1], w[2]) :
        p \in {"p1", "p2"}, d \in {Day(1), Day(2)}, w \in ScheduleWindows}

SchedulePatches ==
    {[start_time |-> T("0", "9", "3", "0"), end_time |-> T("1", "0", "3", "0")],
     [start_time |-> T1("8", "0", "0"), end_time |-> T1("9", "3", "0")],
     [provider_id |-> "p1"]}

ScheduleIds == 1..(MaxRecords + 1)

\* time strings the pattern accepts, for the conflict detector on its own
TimeStrings ==
    {T1("8", "0", "0"), T("0", "8", "3", "0"), T("0", "9", "0", "0"),
     T1("9", "3", "0"), T("1", "0", "0", "0"), T("1", "0", "3", "0")}

\* [start, end) with end after start, in minutes
TimeRanges ==
    {w \in TimeStrings \X TimeStrings :
        timeToMinutes(w[1]) < timeToMinutes(w[2])}

-----------------------------------------------------------------------------
(* Service calls that run without interleaving *)

\* the response of a completed call; status 0 when none is ever sent
Outcome(op, id, okStatus, err) ==
    [op |-> op, id |-> id, error |-> err,
     status |-> IF err = NoReturn THEN 0 ELSE Respond(okStatus, err),
     slots_created |-> 0]

CreateAvailability(data) ==
    \E o \in createAvailability(store, nextId, data, now) :
        /\ store' = o.store
        /\ nextId' = nextId + Cardinality(DOMAIN o.store \ DOMAIN store)
        /\ last' = [Outcome("createAvailability",
                            IF o.error = NoError /\ ~data.is_recurring
                            THEN nextId + 1 ELSE NoId,
                            201, o.error)
                      EXCEPT !.slots_created = o.slots_created]
        /\ UNCHANGED <<host, now, reqs, probe>>

UpdateAvailability(id, updateData) ==
    LET o == updateAvailability(store, id, updateData, now)
    IN  /\ store' = o.store
        /\ last' = Outcome("updateAvailability", id, 200, o.error)
        /\ UNCHANGED <<host, nextId, now, reqs, probe>>

BookSlot(id) ==
    \E o \in bookSlot(store, id, now) :
        /\ store' = o.store
        /\ last' = Outcome("bookSlot", id, 200, o.error)
        /\ UNCHANGED <<host, nextId, now, reqs, probe>>

CancelSlot(id) ==
    \E o \in cancelSlot(store, id) :
        /\ store' = o.store
        /\ last' = Outcome("cancelSlot", id, 200, o.error)
        /\ UNCHANGED <<host, nextId, now, reqs, probe>>

DeleteAvailability(id, deleteRecurring) ==
    LET o == deleteAvailability(store, id, deleteRecurring)
    IN  /\ store' = o.store
        /\ last' = Outcome("deleteAvailability", id, 200, o.error)
        /\ UNCHANGED <<host, nextId, now, reqs, probe>>

\* GET /search: the response body is kept in probe
SearchAvailability(c) ==
    /\ probe' = [fn |-> "searchAvailability", criteria |-> c,
                 data |-> searchAvailability(store, c)]
    /\ last' = Outcome("searchAvailability", NoId, 200, NoError)
    /\ UNCHANGED <<host, store, nextId, now, reqs>>

\* a day passes
Tick ==
    /\ now < NowInit + MaxTicks * MinutesPerDay
    /\ now' = now + MinutesPerDay
    /\ UNCHANGED <<host, store, nextId, last, reqs, probe>>

-----------------------------------------------------------------------------
(* Specifications *)

NoRequest ==
    [op |-> "none", pc |-> "idle", id |-> NoId, loaded |-> NoDoc,
     doc |-> NoDoc, error |-> NoError]

NoProbe == [fn |-> "none"]

Init ==
    /\ store = <<>>
    /\ nextId = 0
    /\ now = NowInit
    /\ host \in HostZones
    /\ last = Outcome("none", NoId, 0, NoError)
    /\ reqs = [r \in 1..MaxReq |-> NoRequest]
    /\ probe = NoProbe

\* booking lifecycle of a record, calls served one at a time
Next ==
    \/ nextId < MaxBookRecords
         /\ \E data \in BookingCreateInputs : CreateAvailability(data)
    \/ \E id \in BookingIds, u \in BookingPatches : UpdateAvailability(id, u)
    \/ \E id \in BookingIds : BookSlot(id)
    \/ \E id \in BookingIds : CancelSlot(id)
    \/ Tick

Spec == Init /\ [][Next]_vars

\* scheduling: creations and updates served one at a time
NextSchedule ==
    \/ nextId < MaxRecords
         /\ \E data \in ScheduleCreateInputs : CreateAvailability(data)
    \/ \E id \in ScheduleIds, u \in SchedulePatches : UpdateAvailability(id, u)

SpecSchedule == Init /\ [][NextSchedule]_vars

-----------------------------------------------------------------------------
(* The conflict detector on its own *)

\* a collection holding one record with the window w
OneRecord(w) == 1 :> NewDocument(Plain("p1", Day(1), w[1], w[2]))

InitConflict ==
    /\ store = <<>>
    /\ nextId = 0
    /\ now = NowInit
    /\ host \in HostZones
    /\ last = Outcome("none", NoId, 0, NoError)
    /\ reqs = [r \in 1..MaxReq |-> NoRequest]
    /\ \E w \in TimeRanges, c \in TimeRanges :
          probe = [fn |-> "checkForConflicts", stored |-> w, candidate |-> c,
                   done |-> FALSE, result |-> FALSE]

\* evaluate checkForConflicts for the candidate against the stored window
EvalConflict ==
    /\ probe.fn = "checkForConflicts"
    /\ ~probe.done
    /\ probe' = [probe EXCEPT
                   !.done = TRUE,
                   !.result = checkForConflicts(OneRecord(probe.stored),
                                "p1", Day(1), probe.candidate[1],
                                probe.candidate[2], NoId)]
    /\ UNCHANGED <<host, store, nextId, now, last, reqs>>

NextConflict == EvalConflict

SpecConflict == InitConflict /\ [][NextConflict]_vars

-----------------------------------------------------------------------------
(* The slot generator and the zone conversions on their own *)

SlotDurations == {15, 20, 30, 45}
BreakDurations == {0, 5, 15}

InitSlots ==
    /\ store = <<>>
    /\ nextId = 0
    /\ now = NowInit
    /\ host \in HostZones
    /\ last = Outcome("none", NoId, 0, NoError)
    /\ reqs = [r \in 1..MaxReq |-> NoRequest]
    /\ \E w \in TimeRanges, sd \in SlotDurations, bd \in BreakDurations :
          probe = [fn |-> "generateTimeSlots", startTime |-> w[1],
                   endTime |-> w[2], slotDuration |-> sd,
                   breakDuration |-> bd, done |-> FALSE, result |-> <<>>]

EvalSlots ==
    /\ probe.fn = "generateTimeSlots"
    /\ ~probe.done
    /\ probe' = [probe EXCEPT
                   !.done = TRUE,
                   !.result = generateTimeSlots(probe.startTime,
                                probe.endTime, probe.slotDuration,
                                probe.breakDuration)]
    /\ UNCHANGED <<host, store, nextId, now, last, reqs>>

NextSlots == EvalSlots

SpecSlots == InitSlots /\ [][NextSlots]_vars

\* local times across the day, two-digit hours
ZoneTimes ==
    {T("0", "0", "3", "0"), T("0", "5", "0", "0"), T("0", "9", "0", "0"),
     T("1", "8", "3", "0"), T("2", "3", "3", "0")}

InitZone ==
    /\ store = <<>>
    /\ nextId = 0
    /\ now = NowInit
    /\ host \in HostZones
    /\ last = Outcome("none", NoId, 0, NoError)
    /\ reqs = [r \in 1..MaxReq |-> NoRequest]
    /\ \E t \in ZoneTimes, d \in {Day(1), Day(2)}, tz \in SupportedTimezones :
          probe = [fn |-> "utcToLocal", time |-> t, date |-> d,
                   timezone |-> tz, done |-> FALSE,
                   result |-> [date |-> 0, time |-> <<>>]]

\* utcToLocal(localToUTC(t, d, tz), tz)
EvalRoundTrip ==
    /\ probe.fn = "utcToLocal"
    /\ ~probe.done
    /\ probe' = [probe EXCEPT
                   !.done = TRUE,
                   !.result = utcToLocal(
                       localToUTC(probe.time, probe.date, probe.timezone),
                       probe.timezone)]
    /\ UNCHANGED <<host, store, nextId, now, last, reqs>>

NextZone == EvalRoundTrip

SpecZone == InitZone /\ [][NextZone]_vars

-----------------------------------------------------------------------------
(* Requests whose database round trips interleave *)

Idle(r) == reqs[r].pc = "idle"

Finish(r, op, id, err) ==
    reqs' = [reqs EXCEPT ![r] =
        [op |-> op, pc |-> "done", id |-> id, loaded |-> NoDoc,
         doc |-> NoDoc, error |-> err]]

\* bookSlot from its start to the point where save() is issued: findById,
\* canBeBooked and incrementAppointments on the private document
BookBegin(r, id) ==
    /\ Idle(r)
    /\ LET l == bookSlotLocal(store, id, now)
       IN  IF l.error # NoError
           THEN Finish(r, "bookSlot", id, SlotCatch(l.error))
           ELSE reqs' = [reqs EXCEPT ![r] =
                   [op |-> "bookSlot", pc |-> "saving", id |-> id,
                    loaded |-> store[id], doc |-> l.doc, error |-> NoError]]
    /\ UNCHANGED <<host, store, nextId, now, last, probe>>

\* the save of a booking reaches the database
BookSave(r) ==
    /\ reqs[r].pc = "saving"
    /\ reqs[r].op = "bookSlot"
    /\ \E o \in saveLoaded(store, reqs[r].id, reqs[r].loaded, reqs[r].doc) :
          /\ store' = o.store
          /\ Finish(r, "bookSlot", reqs[r].id, SlotCatch(o.error))
    /\ UNCHANGED <<host, nextId, now, last, probe>>

\* createAvailability from its start to the point where save() is issued:
\* validation and the conflict query
CreateBegin(r, data) ==
    /\ Idle(r)
    /\ IF JoiInvalid(data, now) # {}
       THEN Finish(r, "createAvailability", NoId,
                   CatchRethrow(ThrowNew("ValidationError"),
                                <<"ValidationError", "ConflictError">>,
                                "DatabaseError"))
       ELSE IF checkForConflicts(store, data.provider_id, data.date,
                                 data.start_time, data.end_time, NoId)
       THEN Finish(r, "createAvailability", NoId,
                   CatchRethrow(
                     CatchRethrow(ThrowNew("ConflictError"),
                                  <<"ConflictError">>, "DatabaseError"),
                     <<"ValidationError", "ConflictError">>, "DatabaseError"))
       ELSE reqs' = [reqs EXCEPT ![r] =
               [op |-> "createAvailability", pc |-> "saving", id |-> NoId,
                loaded |-> NoDoc, doc |-> NewDocument(data),
                error |-> NoError]]
    /\ UNCHANGED <<host, store, nextId, now, last, probe>>

\* the insert of a creation reaches the database
CreateSave(r) ==
    /\ reqs[r].pc = "saving"
    /\ reqs[r].op = "createAvailability"
    /\ nextId < MaxRecords
    /\ \E o \in saveNew(reqs[r].doc, now) :
          IF o.ok
          THEN /\ store' = Insert(store, nextId + 1, o.doc)
               /\ nextId' = nextId + 1
               /\ Finish(r, "createAvailability", nextId + 1, NoError)
          ELSE /\ UNCHANGED <<store, nextId>>
               /\ Finish(r, "createAvailability", NoId,
                    CatchRethrow(
                      CatchRethrow(o.error, <<"ConflictError">>,
                                   "DatabaseError"),
                      <<"ValidationError", "ConflictError">>,
                      "DatabaseError"))
    /\ UNCHANGED <<host, now, last, probe>>

\* a fresh record with capacity 1 or 2
FreshInputs ==
    {Data("p1", Day(1), T("0", "9", "0", "0"), T("1", "0", "0", "0"),
          "America/New_York", "available", mx, 0) : mx \in {1, 2}}

\* concurrent bookings of one record
NextConcBook ==
    \/ nextId < MaxBookRecords
         /\ \E data \in FreshInputs : CreateAvailability(data)
    \/ \E r \in 1..MaxReq, id \in BookingIds : BookBegin(r, id)
    \/ \E r \in 1..MaxReq : BookSave(r)
    \/ Tick

SpecConcBook == Init /\ [][NextConcBook]_vars

\* concurrent creations
NextConcCreate ==
    \/ \E r \in 1..MaxReq, data \in ScheduleCreateInputs : CreateBegin(r, data)
    \/ \E r \in 1..MaxReq : CreateSave(r)

SpecConcCreate == Init /\ [][NextConcCreate]_vars

-----------------------------------------------------------------------------
(* Search over the stored records *)

\* search criteria handed to the service
SearchCriteria ==
    [startDate : {NoDate}, endDate : {NoDate}, timezone : {Absent},
     insuranceAccepted : BOOLEAN, availableOnly : BOOLEAN,
     specialization : {Absent, "cardiology"},
     page : {1, 2}, limit : {1, 2}]
      \cup [startDate : {Day(1)}, endDate : {Day(1)},
            timezone : {"America/New_York"}, insuranceAccepted : {FALSE},
            availableOnly : {TRUE}, specialization : {Absent},
            page : {1}, limit : {1, 2}]

NextSearch ==
    \/ nextId < MaxRecords
         /\ \E data \in ScheduleCreateInputs : CreateAvailability(data)
    \/ \E c \in SearchCriteria : SearchAvailability(c)

SpecSearch == Init /\ [][NextSearch]_vars

-----------------------------------------------------------------------------
(* Recurring creation *)

\* a recurring creation request body after Joi defaults; an omitted
\* recurrence_pattern is Absent, an omitted recurrence_end_date InvalidDate
\* (what new Date(undefined) makes of it)
Recurring(p, d, s, e, pattern, endDate, sd, bd) ==
    [Plain(p, d, s, e) EXCEPT !.is_recurring = TRUE,
                              !.recurrence_pattern = pattern]
      @@ [recurrence_end_date |-> endDate, slot_duration |-> sd,
          break_duration |-> bd]

\* 2024-12-15 is day 1, 2025-01-15 day 32
RecurringEndDates == {Day(1), Day(3), Day(32)}

\* every pattern or none, every end date or none; daily series are short
RecurringInputs ==
    {r \in {Recurring("p1", Day(1), T("0", "9", "0", "0"),
                      T("1", "0", "0", "0"), pattern, endDate, sd, 0) :
               pattern \in RecurrencePatterns \cup {Absent},
               endDate \in RecurringEndDates \cup {InvalidDate},
               sd \in {30, 60}} :
        ~(r.recurrence_pattern = "daily" /\ r.recurrence_end_date = Day(32))}

\* single records that may stand in the way of a series
SeedInputs ==
    {Plain(p, d, T("0", "9", "0", "0"), e) :
        p \in {"p1", "p2"}, d \in {Day(1), Day(8), Day(15)},
        e \in {T("0", "9", "3", "0"), T("1", "0", "0", "0")}}

\* single and recurring creations served one at a time
NextRecur ==
    \/ nextId < MaxRecords
         /\ \E data \in SeedInputs : CreateAvailability(data)
    \/ \E data \in RecurringInputs : CreateAvailability(data)

SpecRecur == Init /\ [][NextRecur]_vars

\* the expansion loop of one recurring request, an iteration at a time
InitExpand ==
    /\ nextId = 0
    /\ now = NowInit
    /\ host \in HostZones
    /\ last = Outcome("none", NoId, 0, NoError)
    /\ reqs = [r \in 1..MaxReq |-> NoRequest]
    /\ \E data \in RecurringInputs, seeded \in BOOLEAN :
          /\ store = IF seeded
                     THEN OneRecord(<<T("0", "9", "0", "0"),
                                      T("0", "9", "3", "0")>>)
                     ELSE <<>>
          /\ probe = [fn |-> "generateRecurringSlots", data |-> data,
                      currentDate |-> data.date, slots |-> <<>>,
                      iterations |-> 0, done |-> FALSE]

\* one pass through the body of the while loop
ExpandStep ==
    /\ probe.fn = "generateRecurringSlots"
    /\ ~probe.done
    /\ LoopContinues(probe.data, probe.currentDate)
    /\ probe.iterations < MaxIterations
    /\ LET loop == RecurIter(store, probe.data,
                             [currentDate |-> probe.currentDate,
                              slots |-> probe.slots])
       IN  probe' = [probe EXCEPT !.currentDate = loop.currentDate,
                                  !.slots = loop.slots,
                                  !.iterations = @ + 1]
    /\ UNCHANGED <<host, store, nextId, now, last, reqs>>

\* the loop condition fails: the loop is left
ExpandExit ==
    /\ probe.fn = "generateRecurringSlots"
    /\ ~probe.done
    /\ ~LoopContinues(probe.data, probe.currentDate)
    /\ probe' = [probe EXCEPT !.done = TRUE]
    /\ UNCHANGED <<host, store, nextId, now, last, reqs>>

NextExpand == ExpandStep \/ ExpandExit

SpecExpand == InitExpand /\ [][NextExpand]_vars

-----------------------------------------------------------------------------
(* Creation requests with one- and two-digit hours *)

FormatCreateInputs ==
    {Plain("p1", d, w[1], w[2]) : d \in {Day(1), Day(2)}, w \in TimeRanges}

NextFormat ==
    nextId < MaxRecords
      /\ \E data \in FormatCreateInputs : CreateAvailability(data)

SpecFormat == Init /\ [][NextFormat]_vars

-----------------------------------------------------------------------------
(* The booking lifecycle with deletion *)

DeletePatches == BookingPatches \cup {[is_recurring |-> TRUE]}

NextDelete ==
    \/ nextId < MaxBookRecords
         /\ \E data \in BookingCreateInputs : CreateAvailability(data)
    \/ \E id \in BookingIds, u \in DeletePatches : UpdateAvailability(id, u)
    \/ \E id \in BookingIds : BookSlot(id)
    \/ \E id \in BookingIds : CancelSlot(id)
    \/ \E id \in BookingIds, dr \in BOOLEAN : DeleteAvailability(id, dr)
    \/ Tick

SpecDelete == Init /\ [][NextDelete]_vars

-----------------------------------------------------------------------------
(* Fresh records of every capacity, booked and cancelled *)

MaxCapacity == 10        \* Joi: max_appointments_per_slot max(10)

FreshCapacityInputs ==
    {Data("p1", Day(1), T("0", "9", "0", "0"), T("1", "0", "0", "0"),
          tz, "available", mx, 0) :
        tz \in {"UTC", "America/New_York"}, mx \in 1..MaxCapacity}

NextFresh ==
    \/ nextId < MaxBookRecords
         /\ \E data \in FreshCapacityInputs : CreateAvailability(data)
    \/ \E id \in BookingIds : BookSlot(id)
    \/ \E id \in BookingIds : CancelSlot(id)
    \/ Tick

SpecFresh == Init /\ [][NextFresh]_vars

-----------------------------------------------------------------------------
(* Claims about the booking lifecycle (specification Spec) *)

\* C2: every stored record has 0 <= current_appointments <=
\* max_appointments_per_slot, whatever createAvailability, bookSlot,
\* cancelSlot and updateAvailability calls were served.
C2_CountWithinCapacity ==
    \A id \in DOMAIN store :
        /\ 0 <= store[id].current_appointments
        /\ store[id].current_appointments
             <= store[id].max_appointments_per_slot

\* C3: a stored record has status 'booked' if and only if its
\* current_appointments has reached max_appointments_per_slot.
C3_BookedIffFull ==
    \A id \in DOMAIN store :
        store[id].status = "booked"
          <=> store[id].current_appointments
                >= store[id].max_appointments_per_slot

\* C8: a bookSlot on a record for which canBeBooked() holds succeeds, adds
\* exactly one appointment, ends 'booked' exactly when the new count reaches
\* the capacity and 'available' otherwise, and changes no other field.
C8_BookSlotEffect ==
    [][\A id \in DOMAIN store :
          (BookSlot(id) /\ canBeBooked(store[id], now))
            => /\ last'.error = NoError
               /\ store' = [store EXCEPT ![id] =
                    [store[id] EXCEPT
                       !.current_appointments = @ + 1,
                       !.status =
                          IF store[id].current_appointments + 1
                               = store[id].max_appointments_per_slot
                          THEN "booked" ELSE "available"]]]_vars

\* C9: bookSlot on a full record and cancelSlot on a record without
\* appointments fail with a conflict reported as HTTP 409 and leave
\* current_appointments and status as they were.
C9_RejectedWith409 ==
    [][\A id \in DOMAIN store :
          /\ (BookSlot(id) /\ store[id].current_appointments
                                  = store[id].max_appointments_per_slot)
               => /\ last'.status = 409
                  /\ store'[id].current_appointments
                       = store[id].current_appointments
                  /\ store'[id].status = store[id].status
          /\ (CancelSlot(id) /\ store[id].current_appointments = 0)
               => /\ last'.status = 409
                  /\ store'[id].current_appointments
                       = store[id].current_appointments
                  /\ store'[id].status = store[id].status]_vars

\* C10: a cancelSlot on a record with current_appointments > 0 succeeds,
\* removes exactly one appointment, and turns the status to 'available'
\* exactly when it was 'booked' and the new count is below the capacity;
\* otherwise the status stays.
C10_CancelSlotEffect ==
    [][\A id \in DOMAIN store :
          (CancelSlot(id) /\ store[id].current_appointments > 0)
            => /\ last'.error = NoError
               /\ store'[id].current_appointments
                    = store[id].current_appointments - 1
               /\ store'[id].status =
                    IF store[id].status = "booked"
                         /\ store[id].current_appointments - 1
                              < store[id].max_appointments_per_slot
                    THEN "available" ELSE store[id].status]_vars

-----------------------------------------------------------------------------
(* Claims about scheduling *)

\* [s1, e1) and [s2, e2) share a minute
MinutesOverlap(s1, e1, s2, e2) ==
    timeToMinutes(s1) < timeToMinutes(e2)
      /\ timeToMinutes(s2) < timeToMinutes(e1)

\* C4: after any sequence of non-interleaved creations and updates, no two
\* stored records of the same provider on the same date have overlapping
\* [start_time, end_time) ranges.
C4_NoOverlap ==
    \A a, b \in DOMAIN store :
        (a # b /\ store[a].provider_id = store[b].provider_id
               /\ store[a].date = store[b].date)
          => ~MinutesOverlap(store[a].start_time, store[a].end_time,
                             store[b].start_time, store[b].end_time)

\* the creation request overlaps a stored record of its provider and date
OverlapsStored(st, data) ==
    \E id \in DOMAIN st :
        /\ st[id].provider_id = data.provider_id
        /\ st[id].date = data.date
        /\ MinutesOverlap(data.start_time, data.end_time,
                          st[id].start_time, st[id].end_time)

\* C7: a single createAvailability whose range overlaps a stored record of
\* the same provider and date is answered with HTTP 409 and stores nothing.
C7_OverlapRejected409 ==
    [][\A data \in ScheduleCreateInputs :
          (CreateAvailability(data) /\ OverlapsStored(store, data))
            => (last'.status = 409 /\ store' = store)]_vars

\* C6: for a stored and a candidate range of the same provider and date,
\* with endpoints the time pattern accepts, checkForConflicts answers true
\* exactly when s1 < e2 and s2 < e1 in minutes (so touching ranges do not
\* conflict and the answer does not depend on which range is the stored one).
C6_ConflictIffOverlap ==
    (probe.fn = "checkForConflicts" /\ probe.done)
      => (probe.result
            <=> MinutesOverlap(probe.candidate[1], probe.candidate[2],
                               probe.stored[1], probe.stored[2]))

-----------------------------------------------------------------------------
(* Claims about interleaved requests *)

Succeeded(r, op) ==
    reqs[r].pc = "done" /\ reqs[r].op = op /\ reqs[r].error = NoError

\* C1: of the bookSlot requests that run concurrently on one record, the
\* number reporting success never exceeds max_appointments_per_slot minus
\* the record's current_appointments at the start (0 for a fresh record).
C1_NoOverbooking ==
    \A id \in DOMAIN store :
        Cardinality({r \in 1..MaxReq :
                       Succeeded(r, "bookSlot") /\ reqs[r].id = id})
          <= store[id].max_appointments_per_slot

\* C5: of two concurrent createAvailability requests for the same provider
\* and date with overlapping windows at most one stores a record, so no two
\* stored records of a provider and date overlap.
C5_OneCreateWins ==
    \A r1, r2 \in 1..MaxReq :
        (/\ r1 # r2
         /\ Succeeded(r1, "createAvailability")
         /\ Succeeded(r2, "createAvailability"))
          => LET a == store[reqs[r1].id]
                 b == store[reqs[r2].id]
             IN  (a.provider_id = b.provider_id /\ a.date = b.date)
                   => ~MinutesOverlap(a.start_time, a.end_time,
                                      b.start_time, b.end_time)

-----------------------------------------------------------------------------
(* Claims about a fresh record (specification SpecFresh) *)

\* the call before this one was a bookSlot of record id, made when the
\* record was fresh (no appointments, 'available')
JustBookedFresh(id) ==
    /\ last.op = "bookSlot"
    /\ last.id = id
    /\ \/ last.error = NoError /\ store[id].current_appointments = 1
       \/ /\ last.error # NoError
          /\ store[id].current_appointments = 0
          /\ store[id].status = "available"

\* C11: on a fresh record of any capacity 1..10, bookSlot followed by
\* cancelSlot leaves current_appointments at 0 and status 'available'.
C11_BookCancelRoundTrip ==
    [][\A id \in DOMAIN store :
          (CancelSlot(id) /\ JustBookedFresh(id))
            => /\ store'[id].current_appointments = 0
               /\ store'[id].status = "available"]_vars

\* C11 witness: a full single-capacity record was booked and is cancelled
\* back to 'available' with no appointments
C11_Witness ==
    /\ last.op = "cancelSlot"
    /\ last.error = NoError
    /\ last.id \in DOMAIN store
    /\ store[last.id].max_appointments_per_slot = 1
    /\ store[last.id].current_appointments = 0
    /\ store[last.id].status = "available"

-----------------------------------------------------------------------------
(* Claims about deletion (specification SpecDelete) *)

\* C12: deleteAvailability on a record with current_appointments > 0 is
\* answered with HTTP 409 and the record stays in the store unchanged.
C12_DeleteRejected409 ==
    [][\A id \in DOMAIN store, dr \in BOOLEAN :
          (DeleteAvailability(id, dr) /\ store[id].current_appointments > 0)
            => (last'.status = 409 /\ store' = store)]_vars

-----------------------------------------------------------------------------
(* Claims about the stored UTC instants (specification Spec) *)

\* C13: in every reachable state each stored record's utc_start_time and
\* utc_end_time equal localToUTC of the record's current date, start_time /
\* end_time and timezone, also after an updateAvailability that changes one
\* of them.
C13_UtcFieldsCurrent ==
    \A id \in DOMAIN store :
        /\ store[id].utc_start_time
             = localToUTC(store[id].start_time, IsoDay(store[id].date),
                          store[id].timezone)
        /\ store[id].utc_end_time
             = localToUTC(store[id].end_time, IsoDay(store[id].date),
                          store[id].timezone)

-----------------------------------------------------------------------------
(* Claims about the time format (specification SpecFormat) *)

\* HH:mm with a two-digit hour
StrictHHmm(s) == Len(s) = 5 /\ MatchesTimePattern(s)

\* the time fields of a request that are not strict HH:mm
OffendingFields(data) ==
    {f \in {"start_time", "end_time"} : ~StrictHHmm(data[f])}

\* C16: a createAvailability whose start_time or end_time is not a strict
\* two-digit-hour HH:mm string is rejected with a validation error that
\* names the offending field, and nothing is stored.
C16_LooseTimeRejected ==
    [][\A data \in FormatCreateInputs :
          (CreateAvailability(data) /\ OffendingFields(data) # {})
            => /\ last'.error = "ValidationError"
               /\ OffendingFields(data) \subseteq JoiInvalid(data, now)
               /\ store' = store]_vars

-----------------------------------------------------------------------------
(* Claims about the pure functions *)

\* C17: for every supported timezone, valid date d and HH:mm time t,
\* utcToLocal(localToUTC(t, d, tz), tz) gives back date d and time t,
\* whatever zone the server process runs in.
C17_ZoneRoundTrip ==
    (probe.fn = "utcToLocal" /\ probe.done)
      => (probe.result.date = probe.date /\ probe.result.time = probe.time)

\* C18: generateTimeSlots returns floor((end - start - slotDuration) /
\* (slotDuration + breakDuration)) + 1 slots when the window holds one slot
\* and none otherwise; slot k (from 0) starts at start + k * (slotDuration +
\* breakDuration), lasts slotDuration minutes and ends no later than end, so
\* the slots do not overlap.
C18_SlotGrid ==
    (probe.fn = "generateTimeSlots" /\ probe.done)
      => LET start == timeToMinutes(probe.startTime)
             end == timeToMinutes(probe.endTime)
             step == probe.slotDuration + probe.breakDuration
             n == IF end - start >= probe.slotDuration
                  THEN (end - start - probe.slotDuration) \div step + 1
                  ELSE 0
             slots == probe.result
         IN  /\ Len(slots) = n
             /\ \A k \in 1..Len(slots) :
                   /\ timeToMinutes(slots[k].start_time)
                        = start + (k - 1) * step
                   /\ timeToMinutes(slots[k].end_time)
                        = timeToMinutes(slots[k].start_time)
                            + probe.slotDuration
                   /\ timeToMinutes(slots[k].end_time) <= end
                   /\ k < Len(slots)
                        => timeToMinutes(slots[k].end_time)
                             <= timeToMinutes(slots[k + 1].start_time)

\* C18 witness: a window that its slots fill exactly, with a break between
\* them
C18_Witness ==
    /\ probe.fn = "generateTimeSlots"
    /\ probe.done
    /\ probe.breakDuration > 0
    /\ Len(probe.result) >= 2
    /\ probe.result[Len(probe.result)].end_time
         = minutesToTime(timeToMinutes(probe.endTime))

-----------------------------------------------------------------------------
(* Claims about recurring creation *)

\* the provider of the request has no record yet
NoRecordsOf(st, data) ==
    \A id \in DOMAIN st : st[id].provider_id # data.provider_id

\* C14: a weekly recurring createAvailability from date d to
\* recurrence_end_date e (d <= e) for a provider without records creates
\* exactly floor((e - d) / 7 days) + 1 occurrences, one on each date d + 7k
\* that is <= e (5 from 2024-12-15 to 2025-01-15), and reports that number
\* as slots_created.
C14_WeeklyOccurrences ==
    [][\A data \in RecurringInputs :
          (/\ CreateAvailability(data)
           /\ data.recurrence_pattern = "weekly"
           /\ data.recurrence_end_date # InvalidDate
           /\ data.date <= data.recurrence_end_date
           /\ NoRecordsOf(store, data))
            => LET n == (data.recurrence_end_date - data.date) \div Day(7) + 1
                   new == DOMAIN store' \ DOMAIN store
               IN  /\ last'.error = NoError
                   /\ last'.slots_created = n
                   /\ Cardinality(new) = n
                   /\ \A k \in 0..(n - 1) :
                         Cardinality({id \in new :
                             store'[id].date = data.date + k * Day(7)}) = 1
          ]_vars

\* the candidate occurrences of a request: what the expansion yields against
\* an empty collection
Candidates(data) ==
    RecurLoop(<<>>, data, [currentDate |-> data.date, slots |-> <<>>],
              MaxIterations).slots

\* C15: a candidate occurrence that conflicts with a stored record is skipped
\* without an error, the remaining candidates are still processed, and the
\* reported slots_created is the number of candidates that do not conflict.
C15_ConflictsSkipped ==
    [][\A data \in RecurringInputs :
          (/\ CreateAvailability(data)
           /\ data.recurrence_pattern # Absent
           /\ data.recurrence_end_date # InvalidDate)
            => LET c == Candidates(data)
                   free == {k \in 1..Len(c) :
                              ~checkForConflicts(store, c[k].provider_id,
                                  c[k].date, c[k].start_time, c[k].end_time,
                                  NoId)}
               IN  /\ last'.error = NoError
                   /\ last'.slots_created = Cardinality(free)
          ]_vars

\* C20: recurrence expansion terminates for every request the creation
\* schema accepts with is_recurring = true, also without recurrence_pattern
\* or recurrence_end_date: every iteration moves the cursor date forward.
C20_CursorAdvances ==
    [][ExpandStep => probe'.currentDate > probe.currentDate]_vars

-----------------------------------------------------------------------------
(* Claims about search (specification SpecSearch) *)

\* the provider entries of the whole result: every record that passes the
\* query and the post-filter, grouped by provider
AllProviderEntries(st, c) ==
    LET found == {id \in DOMAIN st : SearchQueryMatches(st[id], c)}
    IN  formatSearchResults(st,
            SpecializationFilter(st, Sorted(st, found), c))

\* C19: searchAvailability applies page and limit to the provider-grouped
\* entries obtained after all filters, not to the raw slot list: the pages
\* partition the matching providers and each entry carries all matching
\* slots of its provider.
C19_PagesOfProviders ==
    [][\A c \in SearchCriteria :
          SearchAvailability(c)
            => probe'.data.results
                 = SkipLimit(AllProviderEntries(store, c),
                             (c.page - 1) * c.limit, c.limit)]_vars

-----------------------------------------------------------------------------
(* Deletion of a series (specification SpecSeries) *)

\* records of one provider with the same window on two days
SeriesInputs ==
    {Data("p1", d, T("0", "9", "0", "0"), T("1", "0", "0", "0"),
          "America/New_York", "available", mx, 0) :
        d \in {Day(1), Day(2)}, mx \in {1, 2}}

SeriesPatches == {[is_recurring |-> TRUE]}

NextSeries ==
    \/ nextId < MaxRecords
         /\ \E data \in SeriesInputs : CreateAvailability(data)
    \/ \E id \in ScheduleIds, u \in SeriesPatches : UpdateAvailability(id, u)
    \/ \E id \in ScheduleIds : BookSlot(id)
    \/ \E id \in ScheduleIds, dr \in BOOLEAN : DeleteAvailability(id, dr)

SpecSeries == Init /\ [][NextSeries]_vars

\* C21: no record with current_appointments > 0 is removed by
\* deleteAvailability, also when deleteRecurring = true removes the other
\* records of the series: every record a delete removes has no appointments.
C21_NoBookedRecordRemoved ==
    [][\A id \in ScheduleIds, dr \in BOOLEAN :
          DeleteAvailability(id, dr)
            => \A j \in DOMAIN store \ DOMAIN store' :
                  store[j].current_appointments = 0]_vars

-----------------------------------------------------------------------------
(* Monthly expansion from dates late in the month (specification           *)
(* SpecMonthly)                                                            *)

\* 2024-12-15, 2024-12-31, 2025-01-30 and 2025-01-31
MonthlyTemplateDates == {Day(1), Day(17), Day(47), Day(48)}

\* 2025-03-05 and 2025-03-31
MonthlyEndDates == {Day(81), Day(107)}

MonthlyInputs ==
    {Recurring("p1", d, T("0", "9", "0", "0"), T("1", "0", "0", "0"),
               "monthly", endDate, sd, 0) :
        d \in MonthlyTemplateDates, endDate \in MonthlyEndDates,
        sd \in {30, 60}}

InitMonthly ==
    /\ nextId = 0
    /\ now = NowInit
    /\ host \in HostZones
    /\ last = Outcome("none", NoId, 0, NoError)
    /\ reqs = [r \in 1..MaxReq |-> NoRequest]
    /\ store = <<>>
    /\ \E data \in MonthlyInputs :
          probe = [fn |-> "generateRecurringSlots", data |-> data,
                   currentDate |-> data.date, slots |-> <<>>,
                   iterations |-> 0, done |-> FALSE]

SpecMonthly == InitMonthly /\ [][NextExpand]_vars

\* the calendar month a day number lies in, as an index of MonthStarts
MonthOf(dayNumber) ==
    CHOOSE j \in 1..(Len(MonthStarts) - 1) :
        MonthStarts[j] <= dayNumber /\ dayNumber < MonthStarts[j + 1]

\* day of the month (1-31) of a date
DayOfMonth(date) ==
    LET dayNumber == date \div MinutesPerDay
    IN  dayNumber - MonthStarts[MonthOf(dayNumber)] + 1

\* number of days of the month a date lies in
DaysInMonth(date) ==
    LET j == MonthOf(date \div MinutesPerDay)
    IN  MonthStarts[j + 1] - MonthStarts[j]

\* C22: every occurrence of a monthly recurrence falls on the template's
\* day of the month, or on the last day of a month that lacks that day
\* (such a month may also be skipped); the cursor never drifts to another
\* day.
C22_MonthlySameDay ==
    (probe.fn = "generateRecurringSlots"
       /\ probe.data.recurrence_pattern = "monthly")
      => \A k \in 1..Len(probe.slots) :
            LET date == probe.slots[k].date
            IN  \/ DayOfMonth(date) = DayOfMonth(probe.data.date)
                \/ /\ DaysInMonth(date) < DayOfMonth(probe.data.date)
                   /\ DayOfMonth(date) = DaysInMonth(date)

-----------------------------------------------------------------------------
(* Claims about the expanded occurrences (specification SpecExpand) *)

-----------------------------------------------------------------------------
(* Claims about the stored window (specification Spec) *)

\* C25: every stored record has end_time after start_time, compared in
\* minutes, whatever creations and updates were served (also an update that
\* changes only one of the two times).
C25_EndAfterStart ==
    \A id \in DOMAIN store :
        timeToMinutes(store[id].end_time) > timeToMinutes(store[id].start_time)


\* C26: canBeBooked() is true exactly when the status is 'available', the
\* count is below the capacity and the record's calendar date is not earlier
\* than the current calendar date; a record dated today is bookable at any
\* time of day.
C26_BookableToday ==
    \A id \in DOMAIN store :
        canBeBooked(store[id], now)
          <=> /\ store[id].status = "available"
              /\ store[id].current_appointments
                   < store[id].max_appointments_per_slot
              /\ IsoDay(store[id].date) >= IsoDay(now)

\* states booking and cancellation neither enter nor leave
AdministrativeStatuses == {"cancelled", "blocked", "maintenance"}

\* C27: bookSlot and cancelSlot never set a record's status to 'cancelled',
\* 'blocked' or 'maintenance' and never change the status of a record in one
\* of those states; bookSlot on such a record fails with a conflict error.
C27_AdministrativeStates ==
    [][\A id \in DOMAIN store :
          /\ (BookSlot(id) \/ CancelSlot(id))
               => /\ store'[id].status \in AdministrativeStatuses
                       => store[id].status \in AdministrativeStatuses
                  /\ store[id].status \in AdministrativeStatuses
                       => store'[id].status = store[id].status
          /\ (BookSlot(id) /\ store[id].status \in AdministrativeStatuses)
               => last'.error = "ConflictError"]_vars

-----------------------------------------------------------------------------
(* Bookings and cancellations of one record that interleave               *)
(* (specification SpecConcSlot)                                           *)

\* cancelSlot from its start to the point where save() is issued: findById,
\* the count check and decrementAppointments on the private document
CancelBegin(r, id) ==
    /\ Idle(r)
    /\ LET l == cancelSlotLocal(store, id)
       IN  IF l.error # NoError
           THEN Finish(r, "cancelSlot", id, SlotCatch(l.error))
           ELSE reqs' = [reqs EXCEPT ![r] =
                   [op |-> "cancelSlot", pc |-> "saving", id |-> id,
                    loaded |-> store[id], doc |-> l.doc, error |-> NoError]]
    /\ UNCHANGED <<host, store, nextId, now, last, probe>>

\* the save of a cancellation reaches the database
CancelSave(r) ==
    /\ reqs[r].pc = "saving"
    /\ reqs[r].op = "cancelSlot"
    /\ \E o \in saveLoaded(store, reqs[r].id, reqs[r].loaded, reqs[r].doc) :
          /\ store' = o.store
          /\ Finish(r, "cancelSlot", reqs[r].id, SlotCatch(o.error))
    /\ UNCHANGED <<host, nextId, now, last, probe>>

\* appointments the record holds when the requests start
InitialAppointments == 1

\* a record that holds one appointment, of capacity 1 to 3
BookedOnceInputs ==
    {Data("p1", Day(1), T("0", "9", "0", "0"), T("1", "0", "0", "0"),
          "America/New_York", IF mx = 1 THEN "booked" ELSE "available",
          mx, InitialAppointments) : mx \in {1, 2, 3}}

NextConcSlot ==
    \/ nextId < MaxBookRecords
         /\ \E data \in BookedOnceInputs : CreateAvailability(data)
    \/ \E r \in 1..MaxReq, id \in BookingIds : BookBegin(r, id)
    \/ \E r \in 1..MaxReq : BookSave(r)
    \/ \E r \in 1..MaxReq, id \in BookingIds : CancelBegin(r, id)
    \/ \E r \in 1..MaxReq : CancelSave(r)

SpecConcSlot == Init /\ [][NextConcSlot]_vars

\* C28: whatever the interleaving of concurrent bookSlot and cancelSlot
\* requests on one record, once none of them is in flight the stored
\* current_appointments is the initial value plus the bookings that reported
\* success minus the cancellations that reported success.
C28_NoLostUpdate ==
    \A id \in DOMAIN store :
        (\A r \in 1..MaxReq : reqs[r].pc # "saving")
          => store[id].current_appointments
               = InitialAppointments
                   + Cardinality({r \in 1..MaxReq :
                        Succeeded(r, "bookSlot") /\ reqs[r].id = id})
                   - Cardinality({r \in 1..MaxReq :
                        Succeeded(r, "cancelSlot") /\ reqs[r].id = id})

-----------------------------------------------------------------------------
(* A deletion and a booking of one record that interleave                 *)
(* (specification SpecConcDelete)                                         *)

\* the catch blocks of deleteById and deleteAvailability
DeleteCatch(err) ==
    CatchRethrow(CatchRethrow(err, <<"NotFoundError", "ConflictError">>,
                              "DatabaseError"),
                 <<"NotFoundError", "ConflictError">>, "DatabaseError")

\* deleteAvailability from its start to the point where the removal is
\* issued: findById and the appointment check
DeleteBegin(r, id, deleteRecurring) ==
    /\ Idle(r)
    /\ LET err == deleteByIdError(store, id)
       IN  IF err # NoError
           THEN Finish(r, "deleteAvailability", id, DeleteCatch(err))
           ELSE reqs' = [reqs EXCEPT ![r] =
                   [op |-> "deleteAvailability",
                    pc |-> IF deleteRecurring /\ store[id].is_recurring
                           THEN "deletingSeries" ELSE "deleting",
                    id |-> id, loaded |-> store[id], doc |-> store[id],
                    error |-> NoError]]
    /\ UNCHANGED <<host, store, nextId, now, last, probe>>

\* deleteMany / findByIdAndDelete reaches the database; the service raises
\* NotFoundError when nothing was removed
DeleteCommit(r) ==
    /\ reqs[r].pc \in {"deleting", "deletingSeries"}
    /\ LET removed ==
              IF reqs[r].pc = "deletingSeries"
              THEN {j \in DOMAIN store : SameSeries(store[j], reqs[r].loaded)}
              ELSE DOMAIN store \cap {reqs[r].id}
       IN  /\ store' = [i \in DOMAIN store \ removed |-> store[i]]
           /\ Finish(r, "deleteAvailability", reqs[r].id,
                     IF removed # {} THEN NoError
                     ELSE CatchRethrow(ThrowNew("NotFoundError"),
                            <<"NotFoundError", "ConflictError">>,
                            "DatabaseError"))
    /\ UNCHANGED <<host, nextId, now, last, probe>>

NextConcDelete ==
    \/ nextId < MaxBookRecords
         /\ \E data \in FreshInputs : CreateAvailability(data)
    \/ \E r \in 1..MaxReq, id \in BookingIds : BookBegin(r, id)
    \/ \E r \in 1..MaxReq : BookSave(r)
    \/ \E r \in 1..MaxReq, id \in BookingIds, dr \in BOOLEAN :
          DeleteBegin(r, id, dr)
    \/ \E r \in 1..MaxReq : DeleteCommit(r)

SpecConcDelete == Init /\ [][NextConcDelete]_vars

\* C29: when deleteAvailability and bookSlot run concurrently on a record
\* without appointments, they never both report success: a record on which
\* a booking succeeded is not removed by the concurrent delete.
C29_DeleteOrBook ==
    \A r1, r2 \in 1..MaxReq :
        ~(/\ Succeeded(r1, "bookSlot")
          /\ Succeeded(r2, "deleteAvailability")
          /\ reqs[r1].id = reqs[r2].id)

-----------------------------------------------------------------------------
(* The public search route (specification SpecPublicSearch) *)

\* the query string of GET /search; a parameter that is not given is Absent
\* (NoDate for the dates, 0 for the numbers)
SearchQueries ==
    [start_date : {NoDate}, end_date : {NoDate}, timezone : {Absent},
     insurance_accepted : {Absent, "true", "false"},
     available_only : {Absent, "false"},
     page : {0, 1}, limit : {0, 1}]

\* controller searchAvailability: the criteria built from the query string
\* (no specialization is passed on; parseInt(undefined) || default)
searchCriteria(query) ==
    [startDate |-> query.start_date,
     endDate |-> query.end_date,
     insuranceAccepted |-> query.insurance_accepted = "true",
     timezone |-> query.timezone,
     availableOnly |-> query.available_only # "false",
     specialization |-> Absent,
     page |-> IF query.page = 0 THEN 1 ELSE query.page,
     limit |-> IF query.limit = 0 THEN 50 ELSE query.limit]

\* GET /search
SearchRequest(query) == SearchAvailability(searchCriteria(query))

\* records with and without insurance, open and cancelled
PublicCreateInputs ==
    {[Data(p, Day(1), w[1], w[2], "America/New_York", st, 1, 0)
        EXCEPT !.insurance_accepted = ins] :
        p \in {"p1", "p2"}, w \in ScheduleWindows,
        st \in {"available", "cancelled"}, ins \in BOOLEAN}

NextPublicSearch ==
    \/ nextId < MaxRecords
         /\ \E data \in PublicCreateInputs : CreateAvailability(data)
    \/ \E query \in SearchQueries : SearchRequest(query)

SpecPublicSearch == Init /\ [][NextPublicSearch]_vars

\* the slots listed in a grouped result
SlotsOf(results) ==
    UNION {{results[i].available_slots[k] :
              k \in 1..Len(results[i].available_slots)} :
           i \in 1..Len(results)}

====
